---- MODULE Spec2Model ----
(***************************************************************************)
(* Citation validation engine (src/src/citation_validation.py).            *)
(*                                                                         *)
(* Text is a sequence of one-character strings, so that the regular        *)
(* expressions, rstrip, startswith and split of the source are computed    *)
(* character by character.  An error message is a record                   *)
(* [msg |-> fixed text, detail |-> the interpolated values].               *)
(***************************************************************************)
EXTENDS Integers, Sequences, FiniteSets, TLC

\* ------------------------------------------------------------------ bounds
\* Largest number of registered sources in a direct accessibility call.
NSources == 3
\* Largest max_concurrent passed to a direct accessibility call.
MaxM == 2
\* Largest number of registered sources in a call of validate_citations.
MaxRegistered == 2

\* ------------------------------------------------------- program constants
\* validate_url_accessibility(max_concurrent: int = 5)
DefaultMaxConcurrent == 5
\* url[:60] in the existence and accessibility messages
UrlDisplayLen == 60
\* len(missing_in_sources) <= 5 and len(missing) <= 5
ReportCap == 5
\* source_existence_errors[:10] in generate_citation_fix_prompt
ExistenceErrorShown == 10
\* url_accessibility_errors[:5] in generate_citation_fix_prompt
AccessibilityErrorShown == 5

\* ------------------------------------------------------------ text helpers
Min(S) == CHOOSE x \in S : \A y \in S : x <= y
Max(S) == CHOOSE x \in S : \A y \in S : x >= y

RECURSIVE sorted(_)
sorted(S) ==
    IF S = {} THEN <<>> ELSE <<Min(S)>> \o sorted(S \ {Min(S)})

Digits == {"0", "1", "2", "3", "4", "5", "6", "7", "8", "9"}

\* \s of the regular expressions and the characters str.strip() removes
Whitespace == {" ", "\n", "\t", "\r"}

DigitVal(c) ==
    CASE c = "0" -> 0 [] c = "1" -> 1 [] c = "2" -> 2 [] c = "3" -> 3
      [] c = "4" -> 4 [] c = "5" -> 5 [] c = "6" -> 6 [] c = "7" -> 7
      [] c = "8" -> 8 [] c = "9" -> 9

\* int(m) of a run of decimal digits
RECURSIVE ParseInt(_)
ParseInt(ds) ==
    IF Len(ds) = 0 THEN 0
    ELSE 10 * ParseInt(SubSeq(ds, 1, Len(ds) - 1)) + DigitVal(ds[Len(ds)])

\* s[:n]
Take(s, n) == IF Len(s) <= n THEN s ELSE SubSeq(s, 1, n)

HasPrefixAt(s, i, p) ==
    /\ i >= 1
    /\ i + Len(p) - 1 <= Len(s)
    /\ SubSeq(s, i, i + Len(p) - 1) = p

\* s.startswith(p)
startswith(s, p) == HasPrefixAt(s, 1, p)

\* index of the first occurrence of p in s, 0 when there is none (p in s)
find(s, p) ==
    LET hits == {i \in 1..Len(s) : HasPrefixAt(s, i, p)}
    IN  IF hits = {} THEN 0 ELSE Min(hits)

\* s.rstrip(chars)
RECURSIVE rstrip(_, _)
rstrip(s, chars) ==
    IF Len(s) > 0 /\ s[Len(s)] \in chars
    THEN rstrip(SubSeq(s, 1, Len(s) - 1), chars)
    ELSE s

RECURSIVE lstrip(_, _)
lstrip(s, chars) ==
    IF Len(s) > 0 /\ s[1] \in chars
    THEN lstrip(SubSeq(s, 2, Len(s)), chars)
    ELSE s

\* s.strip()
strip(s) == lstrip(rstrip(s, Whitespace), Whitespace)

\* s.split('\n')
RECURSIVE splitlines(_)
splitlines(s) ==
    LET i == find(s, <<"\n">>)
    IN  IF i = 0 THEN <<s>>
        ELSE <<SubSeq(s, 1, i - 1)>> \o splitlines(SubSeq(s, i + 1, Len(s)))

\* First index j >= i with s[j] in stop, Len(s) + 1 when there is none: where a
\* greedy run of a negated character class starting at i ends.
RunEnd(s, i, stop) ==
    Min({j \in i..(Len(s) + 1) : j = Len(s) + 1 \/ s[j] \in stop})

\* Where a greedy run of \d starting at i ends.
DigitRunEnd(s, i) ==
    Min({j \in i..(Len(s) + 1) : j = Len(s) + 1 \/ s[j] \notin Digits})

\* ------------------------------------------------------ citation extraction
HttpPrefix == <<"h", "t", "t", "p", ":", "/", "/">>
HttpsPrefix == <<"h", "t", "t", "p", "s", ":", "/", "/">>

NoMatch == [end |-> 0, title |-> <<>>, url |-> <<>>, num |-> 0]

\* A match of \[([^\]]+)\]\((https?://[^\s\)]+)\) starting at i.  Both
\* character classes exclude the character that must follow them, so the match
\* at a position is unique.
markdown_link_pattern(s, i) ==
    IF ~(i <= Len(s) /\ s[i] = "[") THEN NoMatch
    ELSE LET j == RunEnd(s, i + 1, {"]"})
         IN  IF j > Len(s) \/ j = i + 1 \/ ~HasPrefixAt(s, j + 1, <<"(">>)
             THEN NoMatch
             ELSE LET u == j + 2
                      k == IF HasPrefixAt(s, u, HttpsPrefix) THEN u + 8
                           ELSE IF HasPrefixAt(s, u, HttpPrefix) THEN u + 7
                           ELSE 0
                  IN  IF k = 0 THEN NoMatch
                      ELSE LET e == RunEnd(s, k, Whitespace \cup {")"})
                           IN  IF e = k \/ e > Len(s) \/ s[e] # ")"
                               THEN NoMatch
                               ELSE [end |-> e,
                                     title |-> SubSeq(s, i + 1, j - 1),
                                     url |-> SubSeq(s, u, e - 1),
                                     num |-> 0]

\* A match of \[(\d+)\](?!\() starting at i.
numeric_only_pattern(s, i) ==
    IF ~(i <= Len(s) /\ s[i] = "[") THEN NoMatch
    ELSE LET d == DigitRunEnd(s, i + 1)
         IN  IF d = i + 1 \/ d > Len(s) \/ s[d] # "]"
                \/ HasPrefixAt(s, d + 1, <<"(">>)
             THEN NoMatch
             ELSE [end |-> d, title |-> <<>>, url |-> <<>>,
                   num |-> ParseInt(SubSeq(s, i + 1, d - 1))]

\* re.findall(markdown_link_pattern, s): the (title, url) pairs, left to right,
\* not overlapping.  Both patterns begin with "[", so after a failed attempt
\* the scan resumes at the next "[".
RECURSIVE FindLinksFrom(_, _)
FindLinksFrom(s, i) ==
    IF i > Len(s) THEN <<>>
    ELSE LET m == markdown_link_pattern(s, i)
         IN  IF m.end > 0
             THEN <<[title |-> m.title, url |-> m.url]>> \o FindLinksFrom(s, m.end + 1)
             ELSE FindLinksFrom(s, RunEnd(s, i + 1, {"["}))

markdown_links(s) == FindLinksFrom(s, 1)

\* set(int(m) for m in re.findall(numeric_only_pattern, s))
RECURSIVE FindNumericFrom(_, _)
FindNumericFrom(s, i) ==
    IF i > Len(s) THEN {}
    ELSE LET m == numeric_only_pattern(s, i)
         IN  IF m.end > 0
             THEN {m.num} \cup FindNumericFrom(s, m.end + 1)
             ELSE FindNumericFrom(s, RunEnd(s, i + 1, {"["}))

numeric_citations(s) == FindNumericFrom(s, 1)

\* re.match(r'^\s*\[(\d+)\]', line): optional whitespace, then [N], at the start.
numeric_line_match(line) ==
    LET t == lstrip(line, Whitespace)
        d == DigitRunEnd(t, 2)
    IN  IF Len(t) >= 1 /\ t[1] = "[" /\ d > 2 /\ d <= Len(t) /\ t[d] = "]"
        THEN [end |-> d, title |-> <<>>, url |-> <<>>,
              num |-> ParseInt(SubSeq(t, 2, d - 1))]
        ELSE NoMatch

Err(m, d) == [msg |-> m, detail |-> d]

\* ----------------------------------------------------------------- registry
\* SourceStatus
SourceStatus == {"UNVERIFIED", "VERIFIED", "UNREACHABLE", "TIMEOUT"}

EmptyMap == [x \in {} |-> x]

\* SourceRegistry(): no sources, no index entries, no citation_map
EmptySourceRegistry ==
    [is_none |-> FALSE, sources |-> EmptyMap, url_to_source_id |-> EmptyMap,
     citation_map |-> EmptyMap]

\* source_registry = None
NoneRegistry ==
    [is_none |-> TRUE, sources |-> EmptyMap, url_to_source_id |-> EmptyMap,
     citation_map |-> EmptyMap]

\* ---------------------------------------------------------- existence check
\* UrlUnknown with no partial match: only a key of url_to_source_id is known.
UrlUnknown_ExactOnly(normalized_url, reg) ==
    normalized_url \notin DOMAIN reg.url_to_source_id

\* UrlUnknown accepting a cited URL only when a registered URL is its prefix.
UrlUnknown_OneDirection(normalized_url, reg) ==
    /\ normalized_url \notin DOMAIN reg.url_to_source_id
    /\ ~\E registered_url \in DOMAIN reg.url_to_source_id :
          startswith(normalized_url, registered_url)

\* The test of line 54-61 for one cited URL: neither a key of url_to_source_id
\* nor in a prefix relation, either direction, with a registered URL.
UrlUnknown(normalized_url, reg) ==
    /\ normalized_url \notin DOMAIN reg.url_to_source_id
    /\ ~\E registered_url \in DOMAIN reg.url_to_source_id :
          \/ startswith(registered_url, normalized_url)
          \/ startswith(normalized_url, registered_url)

RECURSIVE HyperlinkErrors(_, _)
HyperlinkErrors(links, reg) ==
    IF links = <<>> THEN <<>>
    ELSE LET url == rstrip(Head(links).url, {".", ",", ";", ":"})
             normalized_url == rstrip(url, {"/"})
         IN  (IF UrlUnknown(normalized_url, reg)
              THEN <<Err("Hyperlink URL not found in research data",
                         <<Head(links).title, Take(url, UrlDisplayLen)>>)>>
              ELSE <<>>)
             \o HyperlinkErrors(Tail(links), reg)

\* NumericErrors checking every number against the source count, map or not.
RECURSIVE NumericErrors_IgnoresMap(_, _)
NumericErrors_IgnoresMap(nums, reg) ==
    IF nums = <<>> THEN <<>>
    ELSE LET citation_num == Head(nums)
             max_registered == Cardinality(DOMAIN reg.sources)
         IN  (IF citation_num > max_registered
              THEN <<Err("Citation exceeds registered sources",
                         <<citation_num, max_registered>>)>>
              ELSE <<>>)
             \o NumericErrors_IgnoresMap(Tail(nums), reg)

\* The loop of lines 72-80 over the cited numbers (taken in ascending order;
\* the order of a Python set is not specified).
RECURSIVE NumericErrors(_, _)
NumericErrors(nums, reg) ==
    IF nums = <<>> THEN <<>>
    ELSE LET citation_num == Head(nums)
             max_registered == Cardinality(DOMAIN reg.sources)
         IN  (IF DOMAIN reg.citation_map # {}
              THEN IF citation_num \notin DOMAIN reg.citation_map
                   THEN <<Err("Citation references non-existent source",
                              <<citation_num>>)>>
                   ELSE <<>>
              ELSE IF citation_num > max_registered
                   THEN <<Err("Citation exceeds registered sources",
                              <<citation_num, max_registered>>)>>
                   ELSE <<>>)
             \o NumericErrors(Tail(nums), reg)

NoSourcesWarning == Err("Warning: No sources registered for validation", <<>>)

\* validate_source_existence without lines 40-42: an empty registry is checked
\* like any other.
validate_source_existence_NoEmptyCheck(c, reg) ==
    LET errors == HyperlinkErrors(markdown_links(c), reg)
                  \o NumericErrors(sorted(numeric_citations(c)), reg)
    IN  [ok |-> Len(errors) = 0, errors |-> errors]

validate_source_existence(c, reg) ==
    IF reg.is_none \/ DOMAIN reg.sources = {}
    THEN [ok |-> TRUE, errors |-> <<NoSourcesWarning>>]
    ELSE LET errors == HyperlinkErrors(markdown_links(c), reg)
                       \o NumericErrors(sorted(numeric_citations(c)), reg)
         IN  [ok |-> Len(errors) = 0, errors |-> errors]

\* ------------------------------------------------------------- format check
SourcesWord == <<"S", "o", "u", "r", "c", "e", "s">>

sources_markers ==
    << <<"#", "#", "#", " ">> \o SourcesWord,
       <<"#", "#", " ">> \o SourcesWord,
       <<"#", " ">> \o SourcesWord,
       <<"*", "*">> \o SourcesWord \o <<"*", "*">>,
       SourcesWord \o <<":">> >>

\* SplitAtMarker taking the text for the Sources section when no marker is
\* found.
RECURSIVE SplitAtMarker_NoMarkerAllSources(_, _)
SplitAtMarker_NoMarkerAllSources(c, k) ==
    IF k > Len(sources_markers)
    THEN [body_text |-> <<>>, sources_section |-> c]
    ELSE LET i == find(c, sources_markers[k])
         IN  IF i = 0 THEN SplitAtMarker_NoMarkerAllSources(c, k + 1)
             ELSE [body_text |-> SubSeq(c, 1, i - 1),
                   sources_section |->
                       SubSeq(c, i + Len(sources_markers[k]), Len(c))]

\* Lines 178-186: split at the first occurrence of the first marker, in
\* priority order, that occurs in the content.
RECURSIVE SplitAtMarker(_, _)
SplitAtMarker(c, k) ==
    IF k > Len(sources_markers)
    THEN [body_text |-> c, sources_section |-> <<>>]
    ELSE LET i == find(c, sources_markers[k])
         IN  IF i = 0 THEN SplitAtMarker(c, k + 1)
             ELSE [body_text |-> SubSeq(c, 1, i - 1),
                   sources_section |->
                       SubSeq(c, i + Len(sources_markers[k]), Len(c))]

UrlSet(links) == {rstrip(links[i].url, {"/"}) : i \in 1..Len(links)}

\* Lines 223-228: the numbers of the Sources lines that start with [N].
source_citations(sources_section) ==
    LET lines == splitlines(sources_section)
        m(i) == numeric_line_match(strip(lines[i]))
    IN  {m(i).num : i \in {j \in 1..Len(lines) : m(j).end > 0}}

\* HyperlinkFormatErrors reporting the missing URLs however many they are.
HyperlinkFormatErrors_NoCap(body_links, sources_section) ==
    LET missing_in_sources ==
            UrlSet(body_links) \ UrlSet(markdown_links(sources_section))
    IN  IF missing_in_sources # {}
        THEN <<Err("URLs cited in body but not in Sources section",
                   <<Cardinality(missing_in_sources)>>)>>
        ELSE <<>>

\* Lines 210-219
HyperlinkFormatErrors(body_links, sources_section) ==
    LET missing_in_sources ==
            UrlSet(body_links) \ UrlSet(markdown_links(sources_section))
    IN  IF missing_in_sources # {} /\ Cardinality(missing_in_sources) <= ReportCap
        THEN <<Err("URLs cited in body but not in Sources section",
                   <<Cardinality(missing_in_sources)>>)>>
        ELSE <<>>

\* NumericFormatErrors reporting the gaps however many they are.
NumericFormatErrors_NoGapCap(body_numeric_citations, sources_section) ==
    LET missing == (1..Max(body_numeric_citations)) \ body_numeric_citations
        undefined == body_numeric_citations \ source_citations(sources_section)
    IN  (IF missing # {}
         THEN <<Err("Gap in citation sequence", sorted(missing))>>
         ELSE <<>>)
        \o (IF undefined # {}
            THEN <<Err("Citations used but not defined in Sources",
                       sorted(undefined))>>
            ELSE <<>>)

\* NumericFormatErrors reporting the undefined numbers only when they are few,
\* as it does the gaps.
NumericFormatErrors_CapsUndefined(body_numeric_citations, sources_section) ==
    LET missing == (1..Max(body_numeric_citations)) \ body_numeric_citations
        undefined == body_numeric_citations \ source_citations(sources_section)
    IN  (IF missing # {} /\ Cardinality(missing) <= ReportCap
         THEN <<Err("Gap in citation sequence", sorted(missing))>>
         ELSE <<>>)
        \o (IF undefined # {} /\ Cardinality(undefined) <= ReportCap
            THEN <<Err("Citations used but not defined in Sources",
                       sorted(undefined))>>
            ELSE <<>>)

\* Lines 221-241
NumericFormatErrors(body_numeric_citations, sources_section) ==
    LET missing == (1..Max(body_numeric_citations)) \ body_numeric_citations
        undefined == body_numeric_citations \ source_citations(sources_section)
    IN  (IF missing # {} /\ Cardinality(missing) <= ReportCap
         THEN <<Err("Gap in citation sequence", sorted(missing))>>
         ELSE <<>>)
        \o (IF undefined # {}
            THEN <<Err("Citations used but not defined in Sources",
                       sorted(undefined))>>
            ELSE <<>>)

\* validate_citation_format without lines 205-207: a body with citations and no
\* Sources section is compared with an empty section instead of rejected.
validate_citation_format_NoSectionCheck(c) ==
    LET parts == SplitAtMarker(c, 1)
        body_markdown_links == markdown_links(parts.body_text)
        body_numeric_citations == numeric_citations(parts.body_text)
        errors ==
            (IF Len(body_markdown_links) > 0
             THEN HyperlinkFormatErrors(body_markdown_links, parts.sources_section)
             ELSE <<>>)
            \o (IF body_numeric_citations # {}
                THEN NumericFormatErrors(body_numeric_citations,
                                         parts.sources_section)
                ELSE <<>>)
    IN  [ok |-> Len(errors) = 0, errors |-> errors]

\* validate_citation_format without lines 200-202: a text with no citation is
\* asked for its Sources section like any other.
validate_citation_format_NoTrivialPass(c) ==
    LET parts == SplitAtMarker(c, 1)
        body_markdown_links == markdown_links(parts.body_text)
        body_numeric_citations == numeric_citations(parts.body_text)
    IN  IF parts.sources_section = <<>>
        THEN [ok |-> FALSE,
              errors |-> <<Err("Citations found but no Sources section present",
                               <<>>)>>]
        ELSE LET errors ==
                     (IF Len(body_markdown_links) > 0
                      THEN HyperlinkFormatErrors(body_markdown_links,
                                                 parts.sources_section)
                      ELSE <<>>)
                     \o (IF body_numeric_citations # {}
                         THEN NumericFormatErrors(body_numeric_citations,
                                                  parts.sources_section)
                         ELSE <<>>)
             IN  [ok |-> Len(errors) = 0, errors |-> errors]

validate_citation_format(c) ==
    LET parts == SplitAtMarker(c, 1)
        body_markdown_links == markdown_links(parts.body_text)
        body_numeric_citations == numeric_citations(parts.body_text)
        has_markdown_links == Len(body_markdown_links) > 0
        has_numeric_citations == body_numeric_citations # {}
    IN  IF ~has_markdown_links /\ ~has_numeric_citations
        THEN [ok |-> TRUE, errors |-> <<>>]
        ELSE IF parts.sources_section = <<>>
        THEN [ok |-> FALSE,
              errors |-> <<Err("Citations found but no Sources section present",
                               <<>>)>>]
        ELSE LET errors ==
                     (IF has_markdown_links
                      THEN HyperlinkFormatErrors(body_markdown_links,
                                                 parts.sources_section)
                      ELSE <<>>)
                     \o (IF has_numeric_citations
                         THEN NumericFormatErrors(body_numeric_citations,
                                                  parts.sources_section)
                         ELSE <<>>)
             IN  [ok |-> Len(errors) = 0, errors |-> errors]

\* --------------------------------------------------------------- the inputs
\* The URL of the registered source s1.
AcmeUrl ==
    <<"h", "t", "t", "p", "s", ":", "/", "/", "a", "c", "m", "e", ".", "c",
      "o", "m", "/", "r", "e", "p", "o", "r", "t">>

\* content: 'See [Acme](https://acme.com/report).'
DocAcme ==
    <<"S", "e", "e", " ", "[", "A", "c", "m", "e", "]", "(", "h", "t", "t",
      "p", "s", ":", "/", "/", "a", "c", "m", "e", ".", "c", "o", "m", "/",
      "r", "e", "p", "o", "r", "t", ")", ".">>

\* content: 'No figures.'
DocPlain ==
    <<"N", "o", " ", "f", "i", "g", "u", "r", "e", "s", ".">>

\* content: 'See [Acme](https://acme.com/report).\n## Sources\n
\*           - [Acme](https://acme.com/report)'
DocLinked ==
    <<"S", "e", "e", " ", "[", "A", "c", "m", "e", "]", "(", "h", "t", "t",
      "p", "s", ":", "/", "/", "a", "c", "m", "e", ".", "c", "o", "m", "/",
      "r", "e", "p", "o", "r", "t", ")", ".", "\n", "#", "#", " ", "S",
      "o", "u", "r", "c", "e", "s", "\n", "-", " ", "[", "A", "c", "m",
      "e", "]", "(", "h", "t", "t", "p", "s", ":", "/", "/", "a", "c", "m",
      "e", ".", "c", "o", "m", "/", "r", "e", "p", "o", "r", "t", ")">>

\* content: 'Revenue rose [1]. Profit fell [5].\n## Sources\n[1] Acme'
DocNumeric ==
    <<"R", "e", "v", "e", "n", "u", "e", " ", "r", "o", "s", "e", " ", "[",
      "1", "]", ".", " ", "P", "r", "o", "f", "i", "t", " ", "f", "e", "l",
      "l", " ", "[", "5", "]", ".", "\n", "#", "#", " ", "S", "o", "u",
      "r", "c", "e", "s", "\n", "[", "1", "]", " ", "A", "c", "m", "e">>

\* content: 'See [Beta](https://beta.org/x), [2].\nSources:\n[2] Beta'
DocStray ==
    <<"S", "e", "e", " ", "[", "B", "e", "t", "a", "]", "(", "h", "t", "t",
      "p", "s", ":", "/", "/", "b", "e", "t", "a", ".", "o", "r", "g", "/",
      "x", ")", ",", " ", "[", "2", "]", ".", "\n", "S", "o", "u", "r",
      "c", "e", "s", ":", "\n", "[", "2", "]", " ", "B", "e", "t", "a">>

\* content: '[1][2][3][4][5][6][7]\nSources:\nnone'
DocSeven ==
    <<"[", "1", "]", "[", "2", "]", "[", "3", "]", "[", "4", "]", "[", "5",
      "]", "[", "6", "]", "[", "7", "]", "\n", "S", "o", "u", "r", "c", "e",
      "s", ":", "\n", "n", "o", "n", "e">>

\* content: '[B](https://beta.org/x) [B](https://beta.org/x) [A](https://acme.com/report/)'
DocTwice ==
    <<"[", "B", "]", "(", "h", "t", "t", "p", "s", ":", "/", "/", "b", "e",
      "t", "a", ".", "o", "r", "g", "/", "x", ")", " ", "[", "B", "]", "(",
      "h", "t", "t", "p", "s", ":", "/", "/", "b", "e", "t", "a", ".", "o",
      "r", "g", "/", "x", ")", " ", "[", "A", "]", "(", "h", "t", "t", "p",
      "s", ":", "/", "/", "a", "c", "m", "e", ".", "c", "o", "m", "/", "r",
      "e", "p", "o", "r", "t", "/", ")">>

\* content: '[A](https://acme.com), [B](https://acme.com/report/2024), [C](https://acme.org/report).'
DocPrefix ==
    <<"[", "A", "]", "(", "h", "t", "t", "p", "s", ":", "/", "/", "a", "c",
      "m", "e", ".", "c", "o", "m", ")", ",", " ", "[", "B", "]", "(", "h",
      "t", "t", "p", "s", ":", "/", "/", "a", "c", "m", "e", ".", "c", "o",
      "m", "/", "r", "e", "p", "o", "r", "t", "/", "2", "0", "2", "4", ")",
      ",", " ", "[", "C", "]", "(", "h", "t", "t", "p", "s", ":", "/", "/",
      "a", "c", "m", "e", ".", "o", "r", "g", "/", "r", "e", "p", "o", "r",
      "t", ")", ".">>

\* content: '[D](https://acme.co.) [E](https://acme.com/reports/;)'
DocPunct ==
    <<"[", "D", "]", "(", "h", "t", "t", "p", "s", ":", "/", "/", "a", "c",
      "m", "e", ".", "c", "o", ".", ")", " ", "[", "E", "]", "(", "h", "t",
      "t", "p", "s", ":", "/", "/", "a", "c", "m", "e", ".", "c", "o", "m",
      "/", "r", "e", "p", "o", "r", "t", "s", "/", ";", ")">>

\* content: 'a[i] [x](ftp://h) [2b] [](https://h) [3'
DocBrackets ==
    <<"a", "[", "i", "]", " ", "[", "x", "]", "(", "f", "t", "p", ":", "/",
      "/", "h", ")", " ", "[", "2", "b", "]", " ", "[", "]", "(", "h", "t",
      "t", "p", "s", ":", "/", "/", "h", ")", " ", "[", "3">>

\* content: 'See [1].\n## Sources'
DocMarkerOnly ==
    <<"S", "e", "e", " ", "[", "1", "]", ".", "\n", "#", "#", " ", "S", "o",
      "u", "r", "c", "e", "s">>

\* content: '[0] and [2].\n# Sources\n[2] Acme'
DocMapped ==
    <<"[", "0", "]", " ", "a", "n", "d", " ", "[", "2", "]", ".", "\n", "#",
      " ", "S", "o", "u", "r", "c", "e", "s", "\n", "[", "2", "]", " ", "A",
      "c", "m", "e">>

\* content: '[1] [2] [4]\n## Sources\n[1] a\n[2] b\n[4] c'
DocGap ==
    <<"[", "1", "]", " ", "[", "2", "]", " ", "[", "4", "]", "\n", "#", "#",
      " ", "S", "o", "u", "r", "c", "e", "s", "\n", "[", "1", "]", " ", "a",
      "\n", "[", "2", "]", " ", "b", "\n", "[", "4", "]", " ", "c">>

\* content: 'See [6].\nSources:\n[6] x'
DocFiveGap ==
    <<"S", "e", "e", " ", "[", "6", "]", ".", "\n", "S", "o", "u", "r", "c",
      "e", "s", ":", "\n", "[", "6", "]", " ", "x">>

\* content: 'See [7].\nSources:\n[7] x'
DocSixGap ==
    <<"S", "e", "e", " ", "[", "7", "]", ".", "\n", "S", "o", "u", "r", "c",
      "e", "s", ":", "\n", "[", "7", "]", " ", "x">>

\* content: '[a](http://a) [b](http://b) [c](http://c) [d](http://d) [e](http://e) [f](http://f)\nSources:\n- none'
DocSixLinks ==
    <<"[", "a", "]", "(", "h", "t", "t", "p", ":", "/", "/", "a", ")", " ",
      "[", "b", "]", "(", "h", "t", "t", "p", ":", "/", "/", "b", ")", " ",
      "[", "c", "]", "(", "h", "t", "t", "p", ":", "/", "/", "c", ")", " ",
      "[", "d", "]", "(", "h", "t", "t", "p", ":", "/", "/", "d", ")", " ",
      "[", "e", "]", "(", "h", "t", "t", "p", ":", "/", "/", "e", ")", " ",
      "[", "f", "]", "(", "h", "t", "t", "p", ":", "/", "/", "f", ")", "\n",
      "S", "o", "u", "r", "c", "e", "s", ":", "\n", "-", " ", "n", "o", "n",
      "e">>

\* content: '[A](https://a.io/) [A](https://a.io) [B](https://b.io) [3]\nSources:\n- [A](https://a.io)\n[1] x'
DocMixed ==
    <<"[", "A", "]", "(", "h", "t", "t", "p", "s", ":", "/", "/", "a", ".",
      "i", "o", "/", ")", " ", "[", "A", "]", "(", "h", "t", "t", "p", "s",
      ":", "/", "/", "a", ".", "i", "o", ")", " ", "[", "B", "]", "(", "h",
      "t", "t", "p", "s", ":", "/", "/", "b", ".", "i", "o", ")", " ", "[",
      "3", "]", "\n", "S", "o", "u", "r", "c", "e", "s", ":", "\n", "-", " ",
      "[", "A", "]", "(", "h", "t", "t", "p", "s", ":", "/", "/", "a", ".",
      "i", "o", ")", "\n", "[", "1", "]", " ", "x">>

\* content: '[1] [2] ... [k] '
RECURSIVE CiteUpTo(_)
CiteUpTo(k) ==
    IF k = 0 THEN <<>>
    ELSE CiteUpTo(k - 1)
         \o <<"[", <<"1", "2", "3", "4", "5", "6", "7", "8", "9">>[k], "]", " ">>

\* The contents validate_citations is called with.
Contents ==
    {DocAcme, DocPlain, DocLinked, DocNumeric, DocStray, DocSeven, DocMarkerOnly}

\* The contents the existence and format checkers are called with directly.
CheckContents ==
    Contents
    \cup {DocTwice, DocPrefix, DocPunct, DocBrackets, DocMapped}
    \cup {DocGap, DocFiveGap, DocSixGap, DocSixLinks, DocMixed}
    \cup {CiteUpTo(k) : k \in 1..(MaxRegistered + 1)}

\* Source ids in the order the sources were registered (the order in which
\* sources.values() yields them).
AllSourceIds == <<"s1", "s2", "s3", "s4", "s5">>

SourceIndex(sid) == CHOOSE i \in 1..Len(AllSourceIds) : AllSourceIds[i] = sid

\* s1 is at AcmeUrl; every other source has a URL of its own.
SourceUrl(i) ==
    IF i = 1 THEN AcmeUrl
    ELSE HttpsPrefix \o <<"s", <<"1", "2", "3", "4", "5">>[i]>>
         \o <<".", "i", "o">>

Source(i) ==
    [id |-> AllSourceIds[i], url |-> SourceUrl(i),
     title |-> <<"S", "r", "c">>, status |-> "UNVERIFIED"]

\* A registry of the sources s1..sn with citation map cm (EmptyMap: none).
\* url_to_source_id is the index of sources by URL.
Registry(n, cm) ==
    [is_none |-> FALSE,
     sources |-> [sid \in {AllSourceIds[i] : i \in 1..n} |->
                     Source(SourceIndex(sid))],
     url_to_source_id |-> [u \in {SourceUrl(i) : i \in 1..n} |->
                     AllSourceIds[CHOOSE i \in 1..n : SourceUrl(i) = u]],
     citation_map |-> cm]

\* citation_map 1..k -> s1..sk
IdentityMap(k) == [c \in 1..k |-> AllSourceIds[c]]

\* The registries validate_citations is called with.
ValidateRegistries ==
    {NoneRegistry}
    \cup {Registry(n, EmptyMap) : n \in 0..MaxRegistered}
    \cup {Registry(n, IdentityMap(n)) : n \in 1..MaxRegistered}

\* The registries the existence checker is called with directly: those of
\* validate_citations, and one whose citation_map has the single key 2.
CheckRegistries == ValidateRegistries \cup {Registry(1, (2 :> "s1"))}

\* A registry whose source sid an earlier accessibility check left at st.
Checked(reg, sid, st) == [reg EXCEPT !.sources[sid].status = st]

\* The registries validate_url_accessibility is called with directly: up to
\* NSources sources, with no citation map, a map onto the first sources, a map
\* citing one source twice, a map with an id that is not registered (with or
\* without a registered one), or a source that was checked before.
AccRegistries ==
    {Registry(n, EmptyMap) : n \in 0..NSources}
    \cup {Registry(n, IdentityMap(n - 1)) : n \in 2..NSources}
    \cup {Registry(n, [c \in 1..2 |-> "s1"]) : n \in 1..2}
    \cup {Registry(n, (1 :> "s2") @@ (2 :> "s9")) : n \in 2..2}
    \cup {Checked(Registry(1, EmptyMap), "s1", st) :
             st \in SourceStatus \ {"UNVERIFIED"}}
    \cup {Registry(1, (1 :> "s9")),
          Checked(Registry(2, (1 :> "s2")), "s1", "TIMEOUT")}

\* The local source_registry after lines 334-335.
LocalRegistry(reg) == IF reg.is_none THEN EmptySourceRegistry ELSE reg

\* CitationValidationResult(is_valid=True): every list empty
CitationValidationResult ==
    [is_valid |-> TRUE, source_existence_errors |-> <<>>, format_errors |-> <<>>,
     completeness_errors |-> <<>>, url_accessibility_errors |-> <<>>,
     warnings |-> <<>>]

\* ---------------------------------------------------------------- the state
VARIABLES
    content,                  \* validate_citations: content
    source_registry,          \* the caller's registry, or None
    check_url_accessibility,  \* option
    check_completeness,       \* option
    max_concurrent,           \* validate_url_accessibility: max_concurrent
    result,                   \* validate_citations: result
    pc,                       \* the stage validate_citations is in
    stage_log,                \* the stages finished so far and how each ended
    apc,                      \* where validate_url_accessibility is
    semaphore,                \* the free slots of asyncio.Semaphore
    tasks,                    \* one check_url task per entry of sources_to_check
    acc_ret,                  \* what validate_url_accessibility returned
    returned,                 \* what the latest call of a checker returned
    response,                 \* what the model call of line 136 came to
    prompt                    \* what generate_citation_fix_prompt returned

vars ==
    <<content, source_registry, check_url_accessibility, check_completeness,
      max_concurrent, result, pc, stage_log, apc, semaphore, tasks, acc_ret,
      returned, response, prompt>>

Stages == <<"existence", "format", "completeness", "accessibility">>

\* Lines 331-336: the result as created, with the warning for a missing registry.
InitialResult(reg) ==
    IF reg.is_none
    THEN [CitationValidationResult EXCEPT !.warnings =
             <<Err("No source registry provided - limited validation possible",
                   <<>>)>>]
    ELSE CitationValidationResult

\* OverallValidity forgetting the format errors.
OverallValidity_ExistenceOnly(r) == Len(r.source_existence_errors) = 0

\* OverallValidity counting the advisory findings as well.
OverallValidity_WithAdvisory(r) ==
    /\ Len(r.source_existence_errors) = 0
    /\ Len(r.format_errors) = 0
    /\ Len(r.completeness_errors) = 0
    /\ Len(r.url_accessibility_errors) = 0

\* Lines 379-382
OverallValidity(r) ==
    Len(r.source_existence_errors) = 0 /\ Len(r.format_errors) = 0

\* NextStage running both optional stages whatever the options say.
NextStage_IgnoresOptions(stage) ==
    CASE stage = "existence" -> "format"
      [] stage = "format" -> "completeness"
      [] stage = "completeness" -> "accessibility"
      [] stage = "accessibility" -> "done"

\* The stage that follows `stage` (lines 355 and 364), "done" after the last.
NextStage(stage) ==
    CASE stage = "existence" -> "format"
      [] stage = "format" ->
            IF check_completeness THEN "completeness"
            ELSE IF check_url_accessibility THEN "accessibility"
            ELSE "done"
      [] stage = "completeness" ->
            IF check_url_accessibility THEN "accessibility" ELSE "done"
      [] stage = "accessibility" -> "done"

\* The text of the warning a failed stage leaves (lines 344, 352, 361, 374).
FailureMessage(stage) ==
    CASE stage = "existence" -> "Source existence check failed"
      [] stage = "format" -> "Format validation failed"
      [] stage = "completeness" -> "Completeness check failed"
      [] stage = "accessibility" -> "URL accessibility check failed"

\* StageRaised recording the failure among the errors of the stage as well.
StageRaised_RecordsError(r, stage) ==
    LET e == Err(FailureMessage(stage), <<>>)
        w == [r EXCEPT !.warnings = Append(@, e)]
    IN  CASE stage = "existence" ->
                [w EXCEPT !.source_existence_errors = Append(@, e)]
          [] stage = "format" -> [w EXCEPT !.format_errors = Append(@, e)]
          [] stage = "completeness" ->
                [w EXCEPT !.completeness_errors = Append(@, e)]
          [] stage = "accessibility" ->
                [w EXCEPT !.url_accessibility_errors = Append(@, e)]

\* The except clause of a stage (342-344, 350-352, 359-361, 372-374): the
\* failure becomes one warning, the stage's error list is left as it was.
StageRaised(r, stage) ==
    [r EXCEPT !.warnings = Append(@, Err(FailureMessage(stage), <<>>))]

\* AfterRaise with one try around all the stages: a failure skips the rest.
AfterRaise_Aborts(stage) == "done"

\* AfterRaise with no except clause: the failure leaves validate_citations.
AfterRaise_Propagates(stage) == "crashed"

\* The stage that runs after a stage raised: the except clause falls through.
AfterRaise(stage) == NextStage(stage)

\* The tuple (ok, errors) a checker returned, with the checker's name.
Returned(fn, r) == [fn |-> fn, ok |-> r.ok, errors |-> r.errors]

\* A stage has ended with result r: go to stage nxt, or, after the last stage,
\* recompute is_valid (lines 379-384) and return.
Advance(stage, how, r, nxt) ==
    /\ stage_log' = Append(stage_log, [stage |-> stage, how |-> how])
    /\ pc' = nxt
    /\ result' = IF nxt = "done"
                 THEN [r EXCEPT !.is_valid = OverallValidity(r)]
                 ELSE r

\* No checker has been called yet.
NoCall == [fn |-> "none", ok |-> TRUE, errors |-> <<>>]

\* The model has not been asked yet.
NoResponse == [kind |-> "none", uncited |-> <<>>]

\* No fix prompt has been built yet.
NoPrompt == [built |-> FALSE, fix_instructions |-> <<>>, available_sources |-> <<>>]

InitCommon ==
    /\ apc = "idle"
    /\ semaphore = 0
    /\ tasks = <<>>
    /\ acc_ret = [ok |-> TRUE, errors |-> <<>>]
    /\ stage_log = <<>>
    /\ returned = NoCall
    /\ response = NoResponse
    /\ prompt = NoPrompt

\* A call of validate_citations, at the existence stage.
Init ==
    /\ content \in Contents
    /\ source_registry \in ValidateRegistries
    /\ check_url_accessibility \in BOOLEAN
    /\ check_completeness \in BOOLEAN
    /\ max_concurrent = DefaultMaxConcurrent
    /\ result = InitialResult(source_registry)
    /\ pc = "existence"
    /\ InitCommon

\* --------------------------------------------------- validate_citations
\* Stage 1, lines 338-344.
ExistenceStage ==
    /\ pc = "existence"
    /\ \/ /\ Advance("existence", "raised", StageRaised(result, "existence"),
                     AfterRaise("existence"))
          /\ UNCHANGED returned
       \/ LET r == validate_source_existence(content, LocalRegistry(source_registry))
          IN  /\ Advance("existence", "returned",
                         [result EXCEPT !.source_existence_errors = r.errors],
                         NextStage("existence"))
              /\ returned' = Returned("validate_source_existence", r)
    /\ UNCHANGED <<content, source_registry, check_url_accessibility,
                   check_completeness, max_concurrent, apc, semaphore, tasks,
                   acc_ret, response, prompt>>

\* Stage 2, lines 346-352.
FormatStage ==
    /\ pc = "format"
    /\ \/ /\ Advance("format", "raised", StageRaised(result, "format"),
                     AfterRaise("format"))
          /\ UNCHANGED returned
       \/ LET r == validate_citation_format(content)
          IN  /\ Advance("format", "returned",
                         [result EXCEPT !.format_errors = r.errors],
                         NextStage("format"))
              /\ returned' = Returned("validate_citation_format", r)
    /\ UNCHANGED <<content, source_registry, check_url_accessibility,
                   check_completeness, max_concurrent, apc, semaphore, tasks,
                   acc_ret, response, prompt>>

\* ------------------------------------------- validate_citation_completeness
\* What the model call of line 136 gives: it raises (a failure or a timeout),
\* answers text that json.loads rejects, or answers JSON with uncited_claims.
LlmResponses ==
    {[kind |-> "call_failed", uncited |-> <<>>],
     [kind |-> "malformed", uncited |-> <<>>],
     [kind |-> "json", uncited |-> <<>>],
     [kind |-> "json", uncited |-> <<Err("uncited claim", <<>>)>>]}

\* Lines 135-152, given the response.
validate_citation_completeness(c, answer) ==
    IF answer.kind = "json"
    THEN [ok |-> Len(answer.uncited) = 0, errors |-> answer.uncited]
    ELSE [ok |-> TRUE,
          errors |-> <<Err("Warning: Could not validate completeness", <<>>)>>]

\* Stage 3, lines 354-361.  The call raises to validate_citations only when
\* the set-up of lines 99-107, outside the function's own try, fails.
CompletenessStage ==
    /\ pc = "completeness"
    /\ \/ /\ Advance("completeness", "raised",
                     StageRaised(result, "completeness"),
                     AfterRaise("completeness"))
          /\ UNCHANGED <<returned, response>>
       \/ \E answer \in LlmResponses :
             LET r == validate_citation_completeness(content, answer)
             IN  /\ Advance("completeness", "returned",
                            [result EXCEPT !.completeness_errors = r.errors],
                            NextStage("completeness"))
                 /\ returned' = Returned("validate_citation_completeness", r)
                 /\ response' = answer
    /\ UNCHANGED <<content, source_registry, check_url_accessibility,
                   check_completeness, max_concurrent, apc, semaphore, tasks,
                   acc_ret, prompt>>

\* ----------------------------------------------- validate_url_accessibility
\* sources_to_check taking every source, citation_map or not.
sources_to_check_IgnoresMap(reg) ==
    LET Registered(sid) == sid \in DOMAIN reg.sources
    IN  SelectSeq(AllSourceIds, Registered)

\* Lines 293-300: the sources to probe, one entry per value of citation_map
\* (in key order) whose id is registered, or every source when there is no map.
sources_to_check(reg) ==
    IF DOMAIN reg.citation_map # {}
    THEN LET keys == sorted(DOMAIN reg.citation_map)
             Registered(k) == reg.citation_map[k] \in DOMAIN reg.sources
             kept == SelectSeq(keys, Registered)
         IN  [i \in 1..Len(kept) |-> reg.citation_map[kept[i]]]
    ELSE LET Registered(sid) == sid \in DOMAIN reg.sources
         IN  SelectSeq(AllSourceIds, Registered)

\* What a HEAD request can come to: a response with a status, the timeout, or
\* any other failure.
ProbeOutcomes ==
    {[kind |-> "response", status |-> st] : st \in {200, 399, 400}}
    \cup {[kind |-> "timeout", status |-> 0], [kind |-> "error", status |-> 0]}

\* The probe of a task that has not ended.
NoOutcome == [kind |-> "none", status |-> 0]

\* check_url leaving alone the status of a source that was checked before.
check_url_KeepsChecked(source, outcome) ==
    LET status ==
            IF source.status # "UNVERIFIED" THEN source.status
            ELSE IF outcome.kind = "timeout" THEN "TIMEOUT"
            ELSE IF outcome.kind = "response" /\ outcome.status < 400
            THEN "VERIFIED"
            ELSE "UNREACHABLE"
    IN  [status |-> status,
         ret |-> IF outcome.kind = "response" /\ outcome.status < 400 THEN <<>>
                 ELSE <<Err("URL error", <<Take(source.url, UrlDisplayLen)>>)>>]

\* Lines 271-290: the status check_url sets on the source and what it returns
\* (<<>> for None).
check_url(source, outcome) ==
    CASE outcome.kind = "response" /\ outcome.status >= 400 ->
            [status |-> "UNREACHABLE",
             ret |-> <<Err("URL returned",
                           <<outcome.status, Take(source.url, UrlDisplayLen)>>)>>]
      [] outcome.kind = "response" /\ outcome.status < 400 ->
            [status |-> "VERIFIED", ret |-> <<>>]
      [] outcome.kind = "timeout" ->
            [status |-> "TIMEOUT",
             ret |-> <<Err("URL timeout", <<Take(source.url, UrlDisplayLen)>>)>>]
      [] outcome.kind = "error" ->
            [status |-> "UNREACHABLE",
             ret |-> <<Err("URL error", <<Take(source.url, UrlDisplayLen)>>)>>]

\* StoreStatus recording the address the request ended at as well.
StoreStatus_AndFinalUrl(source, status) ==
    [source EXCEPT !.status = status, !.url = @ \o <<"/">>]

\* `source.status = ...` (lines 281, 283, 286, 289): the one field written.
StoreStatus(source, status) == [source EXCEPT !.status = status]

\* SlotFree admitting every task.
SlotFree_Always(value) == TRUE

\* Semaphore.acquire returns at once only when a slot is free.
SlotFree(value) == value > 0

\* SlotReleased keeping the slot of a probe that timed out.
SlotReleased_NotOnTimeout(value, outcome) ==
    IF outcome.kind = "timeout" THEN value ELSE value + 1

\* `async with semaphore` releases the slot however the body ends.
SlotReleased(value, outcome) == value + 1

\* Line 306: the results that are not None, in task order.
RECURSIVE GatherErrors(_)
GatherErrors(ts) ==
    IF ts = <<>> THEN <<>> ELSE Head(ts).ret \o GatherErrors(Tail(ts))

\* Lines 262-305, up to the gather: return at once for an empty registry or no
\* source to check, else create the semaphore and one task per source.
AccessibilityCall ==
    /\ pc \in {"accessibility", "direct"}
    /\ apc = "idle"
    /\ LET reg == LocalRegistry(source_registry)
           stc == sources_to_check(reg)
       IN  IF DOMAIN reg.sources = {} \/ stc = <<>>
           THEN /\ apc' = "returned"
                /\ acc_ret' = [ok |-> TRUE, errors |-> <<>>]
                /\ UNCHANGED <<semaphore, tasks>>
           ELSE /\ apc' = "gather"
                /\ semaphore' = max_concurrent
                /\ tasks' = [i \in 1..Len(stc) |->
                               [source |-> stc[i], st |-> "waiting",
                                outcome |-> NoOutcome, ret |-> <<>>]]
                /\ UNCHANGED acc_ret
    /\ UNCHANGED <<content, source_registry, check_url_accessibility,
                   check_completeness, max_concurrent, result, pc, stage_log,
                   returned, response, prompt>>

\* Line 270: task i enters the semaphore.  Waiters are served in the order
\* they arrived, which is the order gather started the tasks in.
Acquire(i) ==
    /\ apc = "gather"
    /\ tasks[i].st = "waiting"
    /\ \A j \in 1..(i - 1) : tasks[j].st # "waiting"
    /\ SlotFree(semaphore)
    /\ semaphore' = semaphore - 1
    /\ tasks' = [tasks EXCEPT ![i].st = "probing"]
    /\ UNCHANGED <<content, source_registry, check_url_accessibility,
                   check_completeness, max_concurrent, result, pc, stage_log,
                   apc, acc_ret, returned, response, prompt>>

\* Lines 271-290: the probe of task i ends with `outcome`; the status is
\* written to the Source object and the slot is released.
Probe(i, outcome) ==
    /\ apc = "gather"
    /\ tasks[i].st = "probing"
    /\ LET sid == tasks[i].source
           r == check_url(source_registry.sources[sid], outcome)
       IN  /\ source_registry' =
                 [source_registry EXCEPT
                     !.sources[sid] = StoreStatus(@, r.status)]
           /\ tasks' = [tasks EXCEPT ![i].st = "done", ![i].outcome = outcome,
                                     ![i].ret = r.ret]
    /\ semaphore' = SlotReleased(semaphore, outcome)
    /\ UNCHANGED <<content, check_url_accessibility, check_completeness,
                   max_concurrent, result, pc, stage_log, apc, acc_ret,
                   returned, response, prompt>>

\* GatherDone giving up on the first probe that did not succeed.
GatherDone_OnFirstFailure(ts) ==
    \/ \A i \in 1..Len(ts) : ts[i].st = "done"
    \/ \E i \in 1..Len(ts) : ts[i].st = "done" /\ ts[i].ret # <<>>

\* Line 305: asyncio.gather is done when every awaitable has ended; check_url
\* catches every failure, so none ends the gather early.
GatherDone(ts) == \A i \in 1..Len(ts) : ts[i].st = "done"

\* Lines 305-308: gather returns when every task has ended.
GatherReturn ==
    /\ apc = "gather"
    /\ GatherDone(tasks)
    /\ LET errors == GatherErrors(tasks)
       IN  acc_ret' = [ok |-> Len(errors) = 0, errors |-> errors]
    /\ apc' = "returned"
    /\ UNCHANGED <<content, source_registry, check_url_accessibility,
                   check_completeness, max_concurrent, result, pc, stage_log,
                   semaphore, tasks, returned, response, prompt>>

\* Stage 4, lines 366-371: validate_url_accessibility has returned.
AccessibilityStageEnd ==
    /\ pc = "accessibility"
    /\ apc = "returned"
    /\ Advance("accessibility", "returned",
               [result EXCEPT !.url_accessibility_errors = acc_ret.errors],
               NextStage("accessibility"))
    /\ UNCHANGED <<content, source_registry, check_url_accessibility,
                   check_completeness, max_concurrent, apc, semaphore, tasks,
                   acc_ret, returned, response, prompt>>

\* Stage 4, lines 372-374: Configuration.from_runnable_config raised before
\* validate_url_accessibility was called.
AccessibilityStageRaise ==
    /\ pc = "accessibility"
    /\ apc = "idle"
    /\ Advance("accessibility", "raised", StageRaised(result, "accessibility"),
               AfterRaise("accessibility"))
    /\ UNCHANGED <<content, source_registry, check_url_accessibility,
                   check_completeness, max_concurrent, apc, semaphore, tasks,
                   acc_ret, returned, response, prompt>>

\* ---------------------------------------------- generate_citation_fix_prompt
\* SourceRegistry.to_citation_list(): every registered source, in the order of
\* registration, with its title and URL.
to_citation_list(reg) ==
    LET Registered(sid) == sid \in DOMAIN reg.sources
        ids == SelectSeq(AllSourceIds, Registered)
    IN  [i \in 1..Len(ids) |->
            [title |-> reg.sources[ids[i]].title, url |-> reg.sources[ids[i]].url]]

\* Lines 403-417: the sections of the prompt, one per non-empty error list
\* (existence cut to ExistenceErrorShown, accessibility to AccessibilityErrorShown),
\* and the list of the sources, or the marker when there is no registry.
generate_citation_fix_prompt(final_report, validation_result, reg) ==
    LET Section(header, errors) ==
            IF Len(errors) > 0
            THEN <<[header |-> header, errors_list |-> errors]>>
            ELSE <<>>
    IN  [built |-> TRUE,
         fix_instructions |->
             Section("SOURCE EXISTENCE ERRORS (CRITICAL - must fix)",
                     Take(validation_result.source_existence_errors,
                          ExistenceErrorShown))
             \o Section("FORMAT ERRORS (CRITICAL - must fix)",
                        validation_result.format_errors)
             \o Section("URL ACCESSIBILITY WARNINGS",
                        Take(validation_result.url_accessibility_errors,
                             AccessibilityErrorShown)),
         available_sources |->
             IF reg.is_none THEN <<"No sources available">>
             ELSE to_citation_list(reg)]

\* The caller builds the fix prompt from the result validate_citations returned
\* and the registry it passed.
FixPrompt ==
    /\ pc = "done"
    /\ ~prompt.built
    /\ prompt' = generate_citation_fix_prompt(content, result, source_registry)
    /\ UNCHANGED <<content, source_registry, check_url_accessibility,
                   check_completeness, max_concurrent, result, pc, stage_log,
                   apc, semaphore, tasks, acc_ret, returned, response>>

\* ------------------------------------------------------- the specifications
Next ==
    \/ ExistenceStage
    \/ FormatStage
    \/ CompletenessStage
    \/ AccessibilityCall
    \/ AccessibilityStageRaise
    \/ \E i \in 1..Len(tasks) : Acquire(i)
    \/ \E i \in 1..Len(tasks) : \E outcome \in ProbeOutcomes : Probe(i, outcome)
    \/ GatherReturn
    \/ AccessibilityStageEnd
    \/ FixPrompt

\* Calls of validate_citations.
Spec == Init /\ [][Next]_vars

\* The event loop runs a step whenever one is ready, and every probe ends: with
\* a response, a failure, or its own ClientTimeout.
FairSpec == Spec /\ WF_vars(Next)

\* A direct call of validate_url_accessibility(registry, timeout, max_concurrent).
InitAcc ==
    /\ content = <<>>
    /\ source_registry \in AccRegistries
    /\ check_url_accessibility = TRUE
    /\ check_completeness = FALSE
    /\ max_concurrent \in 1..MaxM
    /\ result = CitationValidationResult
    /\ pc = "direct"
    /\ InitCommon

NextAcc ==
    \/ AccessibilityCall
    \/ \E i \in 1..Len(tasks) : Acquire(i)
    \/ \E i \in 1..Len(tasks) : \E outcome \in ProbeOutcomes : Probe(i, outcome)
    \/ GatherReturn

SpecAcc == InitAcc /\ [][NextAcc]_vars

\* A direct call of validate_source_existence(content, source_registry).
CallExistence ==
    /\ pc = "checkers"
    /\ returned' = Returned("validate_source_existence",
                            validate_source_existence(content, source_registry))
    /\ UNCHANGED <<content, source_registry, check_url_accessibility,
                   check_completeness, max_concurrent, result, pc, stage_log,
                   apc, semaphore, tasks, acc_ret, response, prompt>>

\* A direct call of validate_citation_format(content).
CallFormat ==
    /\ pc = "checkers"
    /\ returned' = Returned("validate_citation_format",
                            validate_citation_format(content))
    /\ UNCHANGED <<content, source_registry, check_url_accessibility,
                   check_completeness, max_concurrent, result, pc, stage_log,
                   apc, semaphore, tasks, acc_ret, response, prompt>>

InitCheckers ==
    /\ content \in CheckContents
    /\ source_registry \in CheckRegistries
    /\ check_url_accessibility = FALSE
    /\ check_completeness = FALSE
    /\ max_concurrent = DefaultMaxConcurrent
    /\ result = CitationValidationResult
    /\ pc = "checkers"
    /\ InitCommon

NextCheckers == CallExistence \/ CallFormat

\* Direct calls of the existence and format checkers.
SpecCheckers == InitCheckers /\ [][NextCheckers]_vars

FairSpecAcc == SpecAcc /\ WF_vars(NextAcc)

\* ------------------------------------------------------------------- claims
Done == pc = "done"

\* How stage number k of validate_citations ended, "none" while it has not.
Ended(k) == IF k <= Len(stage_log) THEN stage_log[k].how ELSE "none"

\* The stages started so far, in order, then where the run is now.
StagesSoFar == [i \in 1..Len(stage_log) |-> stage_log[i].stage] \o <<pc>>

\* The stages the options ask for, in the order of the source, then "done".
ExpectedOrder ==
    LET On(st) == /\ st = "completeness" => check_completeness
                  /\ st = "accessibility" => check_url_accessibility
    IN  SelectSeq(Stages, On) \o <<"done">>

WarningCount(msg) ==
    Cardinality({i \in 1..Len(result.warnings) : result.warnings[i].msg = msg})

RaisedCount == Cardinality({i \in 1..Len(stage_log) : stage_log[i].how = "raised"})

InFlight == {i \in 1..Len(tasks) : tasks[i].st = "probing"}

Terminal == {"VERIFIED", "UNREACHABLE", "TIMEOUT"}

\* C1: when validate_citations has returned, is_valid is true exactly when the
\* result has no existence error and no format error, whatever the content,
\* the registry, the options and the way each stage ended.
C1_IsValidRecomputed ==
    Done => (result.is_valid <=>
                (/\ Len(result.source_existence_errors) = 0
                 /\ Len(result.format_errors) = 0))

\* A run in which a stage raised and the result is invalid by a format error.
C1_Witness ==
    /\ Done
    /\ ~result.is_valid
    /\ Len(result.source_existence_errors) = 0
    /\ RaisedCount > 0

\* C2: with no registered source and a format check that finds no error,
\* validate_citations returns is_valid = true, and "No sources registered for
\* validation" is a warning, not an existence error.
C2_EmptyRegistryFailOpen ==
    (/\ Done
     /\ DOMAIN LocalRegistry(source_registry).sources = {}
     /\ Ended(1) = "returned"
     /\ Ended(2) = "returned"
     /\ Len(result.format_errors) = 0)
    => /\ result.is_valid
       /\ WarningCount(NoSourcesWarning.msg) = 1
       /\ \A i \in 1..Len(result.source_existence_errors) :
             result.source_existence_errors[i].msg # NoSourcesWarning.msg

\* The call of C3: content DocAcme, a registry holding s1 at AcmeUrl, no
\* citation_map, and both critical stages returning.
AcmeCall ==
    /\ content = DocAcme
    /\ ~source_registry.is_none
    /\ DOMAIN source_registry.sources = {"s1"}
    /\ source_registry.sources["s1"].url = AcmeUrl
    /\ DOMAIN source_registry.citation_map = {}
    /\ Ended(1) = "returned"
    /\ Ended(2) = "returned"

\* C3 as stated: that call returns is_valid = true with no existence error and
\* no format error.
C3_AcmeValid ==
    (Done /\ AcmeCall)
    => /\ result.is_valid
       /\ Len(result.source_existence_errors) = 0
       /\ Len(result.format_errors) = 0

\* C3 amended: that call returns is_valid = false with no existence error and
\* exactly one format error, "Citations found but no Sources section present".
C3_AcmeNoSourcesSection ==
    (Done /\ AcmeCall)
    => /\ ~result.is_valid
       /\ Len(result.source_existence_errors) = 0
       /\ Len(result.format_errors) = 1
       /\ result.format_errors[1].msg
             = "Citations found but no Sources section present"

C3_Witness == Done /\ AcmeCall

\* The verdict the content, the registry and the way the two critical stages
\* ended decide by themselves.
CriticalVerdict ==
    LET exist_errors ==
            IF Ended(1) = "raised" THEN <<>>
            ELSE validate_source_existence(
                     content, LocalRegistry(source_registry)).errors
        format_errors ==
            IF Ended(2) = "raised" THEN <<>>
            ELSE validate_citation_format(content).errors
    IN  Len(exist_errors) = 0 /\ Len(format_errors) = 0

\* C4: is_valid is a function of the content, the registry and the outcome of
\* the existence and format stages alone, so two runs that differ only in the
\* advisory stages (enabled or not, their findings, their failure) return the
\* same is_valid.
C4_AdvisoryNeverFlips == Done => (result.is_valid <=> CriticalVerdict)

\* A valid result that carries completeness findings and accessibility errors.
C4_Witness ==
    /\ Done
    /\ result.is_valid
    /\ Len(result.completeness_errors) > 0
    /\ Len(result.url_accessibility_errors) > 0

\* C5: the stages run in the order existence, format, completeness,
\* accessibility, each after the one before has ended; completeness runs iff
\* check_completeness, accessibility iff check_url_accessibility; a probe is
\* dispatched only in the accessibility stage, so none without that option.
C5_StageOrder ==
    /\ Len(StagesSoFar) <= Len(ExpectedOrder)
    /\ StagesSoFar = SubSeq(ExpectedOrder, 1, Len(StagesSoFar))
    /\ apc # "idle" => pc \in {"accessibility", "done"}
    /\ ~check_url_accessibility => (tasks = <<>> /\ apc = "idle")

\* A finished run with the default options: three stages and no probe.
C5_Witness ==
    /\ Done
    /\ check_completeness
    /\ ~check_url_accessibility
    /\ Len(stage_log) = 3

\* C6: a stage that raised left exactly one warning, and the stage the options
\* put after it was started all the same; a stage that returned left none.
C6_StageIsolation ==
    /\ \A i \in 1..Len(stage_log) :
          stage_log[i].how = "raised" =>
             /\ WarningCount(FailureMessage(stage_log[i].stage)) = 1
             /\ StagesSoFar[i + 1] = ExpectedOrder[i + 1]
    /\ Len(result.warnings)
          = RaisedCount + (IF source_registry.is_none THEN 1 ELSE 0)

\* The first stage raised and the three others were still run.
C6_Witness ==
    /\ Done
    /\ Ended(1) = "raised"
    /\ Len(stage_log) = 4
    /\ Ended(4) = "returned"

WellFormed(r) ==
    /\ DOMAIN r = {"is_valid", "source_existence_errors", "format_errors",
                   "completeness_errors", "url_accessibility_errors", "warnings"}
    /\ r.is_valid \in BOOLEAN
    /\ \A f \in {"source_existence_errors", "format_errors",
                 "completeness_errors", "url_accessibility_errors", "warnings"} :
          /\ DOMAIN r[f] = 1..Len(r[f])
          /\ \A i \in 1..Len(r[f]) : DOMAIN r[f][i] = {"msg", "detail"}

\* C7: validate_citations always returns, and what it returns is a well-formed
\* result; a missing registry is reported by one warning, and when every stage
\* failed there is a warning for each.
C7_AlwaysReturns ==
    /\ <>Done
    /\ [](Done =>
            /\ WellFormed(result)
            /\ source_registry.is_none =>
                  WarningCount("No source registry provided - limited validation possible") = 1
            /\ RaisedCount = Len(stage_log) =>
                  Len(result.warnings) >= Len(stage_log))

\* No registry was supplied and all four stages failed.
C7_Witness ==
    /\ Done
    /\ source_registry.is_none
    /\ Len(stage_log) = 4
    /\ RaisedCount = 4

\* C8: at most max_concurrent probes are inside the semaphore, and the
\* semaphore counts the slots left; a task stays waiting while none is free.
C8_BoundedInFlight ==
    apc = "gather" =>
       /\ Cardinality(InFlight) <= max_concurrent
       /\ semaphore = max_concurrent - Cardinality(InFlight)

\* More sources than slots: every slot taken, a task waiting, a probe failed.
C8_Witness ==
    /\ apc = "gather"
    /\ Len(tasks) > max_concurrent
    /\ Cardinality(InFlight) = max_concurrent
    /\ \E i \in 1..Len(tasks) : tasks[i].st = "waiting"
    /\ \E i \in 1..Len(tasks) : tasks[i].st = "done" /\ tasks[i].ret # <<>>

\* C9: validate_url_accessibility returns, and when it has returned for a
\* registry with no citation_map every source has a status in Terminal.
C9_AllSourcesTerminal ==
    /\ <>(apc = "returned")
    /\ [](apc = "returned" /\ DOMAIN source_registry.citation_map = {}
            => \A sid \in DOMAIN source_registry.sources :
                  source_registry.sources[sid].status \in Terminal)

\* A returned call with more sources than slots and a probe that timed out.
C9_Witness ==
    /\ apc = "returned"
    /\ DOMAIN source_registry.citation_map = {}
    /\ Cardinality(DOMAIN source_registry.sources) > max_concurrent
    /\ \E sid \in DOMAIN source_registry.sources :
          source_registry.sources[sid].status = "TIMEOUT"

\* C10: no two probes that are in flight at the same time target the same
\* Source.
C10_NoTwoProbesOneSource ==
    \A i, j \in InFlight : i # j => tasks[i].source # tasks[j].source

\* Two registries that differ at most in the status of their sources.
SameButStatus(a, b) ==
    /\ a.is_none = b.is_none
    /\ a.url_to_source_id = b.url_to_source_id
    /\ a.citation_map = b.citation_map
    /\ DOMAIN a.sources = DOMAIN b.sources
    /\ \A sid \in DOMAIN a.sources :
          /\ a.sources[sid].id = b.sources[sid].id
          /\ a.sources[sid].url = b.sources[sid].url
          /\ a.sources[sid].title = b.sources[sid].title

\* C11: a step changes the registry at most in the status of its sources, and
\* only while validate_url_accessibility is running its probes; the step in
\* which the existence, format or completeness checker returns and the step
\* that builds the fix prompt leave the registry as it was, and so does every
\* step of a run with check_url_accessibility off.
C11_RegistryFrame ==
    [][/\ SameButStatus(source_registry, source_registry')
       /\ source_registry' # source_registry
             => (pc = "accessibility" /\ apc = "gather")
       /\ (returned' # returned \/ prompt' # prompt)
             => source_registry' = source_registry
       /\ ~check_url_accessibility => source_registry' = source_registry]_vars

\* Every checker has run, the probes changed a status, the prompt was built.
C11_Witness ==
    /\ Done
    /\ prompt.built
    /\ Len(stage_log) = 4
    /\ RaisedCount = 0
    /\ \E sid \in DOMAIN source_registry.sources :
          source_registry.sources[sid].status # "UNVERIFIED"

\* validate_source_existence has just returned.
ExistenceReturned == returned.fn = "validate_source_existence"

\* validate_citation_format has just returned.
FormatReturned == returned.fn = "validate_citation_format"

NoSources(reg) == reg.is_none \/ DOMAIN reg.sources = {}

\* C12: for a registry with no sources validate_source_existence returns ok
\* with exactly one message, the warning, whatever the content cites.
C12_EmptyRegistryOneWarning ==
    (ExistenceReturned /\ NoSources(source_registry))
    => /\ returned.ok
       /\ Len(returned.errors) = 1
       /\ returned.errors[1].msg = "Warning: No sources registered for validation"

\* The existence check of a text with two unknown links on an empty registry.
C12_Witness ==
    /\ ExistenceReturned
    /\ DOMAIN source_registry.sources = {}
    /\ ~source_registry.is_none
    /\ content = DocTwice

\* The URL of a hyperlink citation after the trailing punctuation and the
\* trailing slashes are removed.
CitedUrl(link) == rstrip(rstrip(link.url, {".", ",", ";", ":"}), {"/"})

\* The cited URL u is no key of url_to_source_id and no registered URL is a
\* prefix of it or has it as a prefix.
Unregistered(u, reg) ==
    \A r \in DOMAIN reg.url_to_source_id :
       /\ u # r
       /\ ~startswith(u, r)
       /\ ~startswith(r, u)

IsHyperlinkError(e) == e.msg = "Hyperlink URL not found in research data"

\* C13: for a registry with sources, the hyperlink errors are, in order, one
\* for each link occurrence whose URL is unregistered and none for any other;
\* and ok is true exactly when no error is returned.
C13_OneErrorPerUnknownLink ==
    (ExistenceReturned /\ ~NoSources(source_registry))
    => LET links == markdown_links(content)
           Unknown(link) == Unregistered(CitedUrl(link), source_registry)
           unknown == SelectSeq(links, Unknown)
           errors == SelectSeq(returned.errors, IsHyperlinkError)
       IN  /\ Len(errors) = Len(unknown)
           /\ \A j \in 1..Len(errors) : errors[j].detail[1] = unknown[j].title
           /\ returned.ok <=> (returned.errors = <<>>)

\* Two occurrences of one unknown URL, then a registered one: two errors.
C13_Witness ==
    /\ ExistenceReturned
    /\ ~NoSources(source_registry)
    /\ content = DocTwice
    /\ Len(returned.errors) = 2
    /\ ~returned.ok

IsNumericError(e) ==
    e.msg \in {"Citation references non-existent source",
               "Citation exceeds registered sources"}

\* C14: for a registry with sources, a cited number N gets an error exactly
\* when it is not accepted: accepted means a key of citation_map when there is
\* one, and N <= the number of sources when there is none.  So with k sources
\* and the map 1..k onto them, a text citing [1]..[k] is ok with no error and
\* a text citing [k+1] as well is not ok, with an error for k+1.
C14_NumericRoundTrip ==
    (ExistenceReturned /\ ~NoSources(source_registry))
    => LET reg == source_registry
           k == Cardinality(DOMAIN reg.sources)
           Accepted(N) ==
               IF DOMAIN reg.citation_map # {}
               THEN N \in DOMAIN reg.citation_map
               ELSE N <= k
           rejected ==
               {returned.errors[i].detail[1] :
                  i \in {j \in 1..Len(returned.errors) :
                            IsNumericError(returned.errors[j])}}
       IN  /\ rejected = {N \in numeric_citations(content) : ~Accepted(N)}
           /\ (reg.citation_map = IdentityMap(k) /\ content = CiteUpTo(k))
                 => (returned.ok /\ returned.errors = <<>>)
           /\ (reg.citation_map = IdentityMap(k) /\ content = CiteUpTo(k + 1))
                 => (~returned.ok /\ rejected = {k + 1})

\* The registry of MaxRegistered sources with its map, and one number more.
C14_Witness ==
    /\ ExistenceReturned
    /\ source_registry = Registry(MaxRegistered, IdentityMap(MaxRegistered))
    /\ content = CiteUpTo(MaxRegistered + 1)
    /\ ~returned.ok

\* The text has no hyperlink citation and no numeric citation.
NoCitations(c) == markdown_links(c) = <<>> /\ numeric_citations(c) = {}

\* C15 as stated: for a text with no citation, validate_citation_format and
\* validate_source_existence return ok with an empty list, for every registry.
C15_NoCitationsNoErrors ==
    (NoCitations(content) /\ (ExistenceReturned \/ FormatReturned))
    => (returned.ok /\ returned.errors = <<>>)

\* C15 amended: for a text with no citation both checkers return ok; the list
\* of validate_citation_format is empty, and that of validate_source_existence
\* is empty for a registry with sources and is the one warning "No sources
\* registered for validation" for a registry without.
C15_NoCitationsValid ==
    NoCitations(content)
    => /\ FormatReturned => (returned.ok /\ returned.errors = <<>>)
       /\ (ExistenceReturned /\ ~NoSources(source_registry))
             => (returned.ok /\ returned.errors = <<>>)
       /\ (ExistenceReturned /\ NoSources(source_registry))
             => /\ returned.ok
                /\ Len(returned.errors) = 1
                /\ returned.errors[1].msg = NoSourcesWarning.msg

\* The existence check of a text with brackets and no citation, on a registry
\* without sources: ok, and the warning.
C15_Witness ==
    /\ ExistenceReturned
    /\ content = DocBrackets
    /\ source_registry = Registry(0, EmptyMap)
    /\ returned.ok
    /\ Len(returned.errors) = 1

\* None of the markers of a Sources section occurs in the text.
NoMarker(c) ==
    \A k \in 1..Len(sources_markers) : find(c, sources_markers[k]) = 0

\* C16: when the text has no marker of a Sources section, all of it is the
\* body: if it has a citation anywhere, validate_citation_format returns
\* not-ok with the one error "Citations found but no Sources section present";
\* the same holds when nothing follows the marker and the body has a citation.
C16_NoSourcesSection ==
    FormatReturned
    => /\ (NoMarker(content) /\ ~NoCitations(content))
             => /\ ~returned.ok
                /\ Len(returned.errors) = 1
                /\ returned.errors[1].msg
                      = "Citations found but no Sources section present"
       /\ content = DocMarkerOnly
             => /\ ~returned.ok
                /\ returned.errors[1].msg
                      = "Citations found but no Sources section present"

\* The format check of a text with links and no marker.
C16_Witness ==
    /\ FormatReturned
    /\ content = DocPrefix
    /\ NoMarker(content)
    /\ ~returned.ok

\* The numbers the body cites that no line of the Sources section defines.
Undefined(c) ==
    LET parts == SplitAtMarker(c, 1)
    IN  numeric_citations(parts.body_text)
           \ source_citations(parts.sources_section)

HasError(errors, msg, detail) ==
    \E i \in 1..Len(errors) : errors[i] = Err(msg, detail)

\* C17: validate_citations on DocNumeric (body cites [1] and [5], Sources
\* defines [1]) returns the format error "Citations used but not defined in
\* Sources" naming 5, and, for a registry whose citation_map lacks 5, the
\* existence error for 5 and is_valid = false.  For every content, when the
\* body cites numbers that Sources does not define, the format check fails:
\* with the error for a missing Sources section when there is none, and else
\* with one error that names all of those numbers, however many.
C17_UndefinedCitationsReported ==
    /\ (Done /\ content = DocNumeric /\ Ended(2) = "returned")
          => HasError(result.format_errors,
                      "Citations used but not defined in Sources", <<5>>)
    /\ (/\ Done
        /\ content = DocNumeric
        /\ Ended(1) = "returned"
        /\ DOMAIN LocalRegistry(source_registry).sources # {}
        /\ DOMAIN source_registry.citation_map # {}
        /\ 5 \notin DOMAIN source_registry.citation_map)
          => /\ HasError(result.source_existence_errors,
                         "Citation references non-existent source", <<5>>)
             /\ ~result.is_valid
    /\ (Done /\ Ended(2) = "returned" /\ Undefined(content) # {})
          => \/ HasError(result.format_errors,
                         "Citations found but no Sources section present", <<>>)
             \/ HasError(result.format_errors,
                         "Citations used but not defined in Sources",
                         sorted(Undefined(content)))

\* DocNumeric validated against a registry with a citation_map, both critical
\* stages returning.
C17_Witness ==
    /\ Done
    /\ content = DocNumeric
    /\ Ended(1) = "returned"
    /\ Ended(2) = "returned"
    /\ DOMAIN source_registry.citation_map # {}
    /\ ~result.is_valid

\* The message of a completeness check that could not be made.
CompletenessFailure == "Warning: Could not validate completeness"

\* C18: when the model call of the completeness check fails or answers text
\* that cannot be parsed, validate_citation_completeness returns ok = true,
\* validate_citations returns, and the failure message is among the warnings
\* of the result.
C18_CompletenessFailureIsWarning ==
    (Done /\ response.kind \in {"call_failed", "malformed"})
    => /\ returned.fn = "validate_citation_completeness"
       /\ returned.ok
       /\ \E i \in 1..Len(result.warnings) :
             result.warnings[i].msg = CompletenessFailure

\* The probe ended with a response whose status is below 400.
Succeeded(outcome) == outcome.kind = "response" /\ outcome.status < 400

\* C19: validate_url_accessibility returns only when every probe it
\* dispatched has reached an outcome, whatever the others came to; the errors
\* it returns are one per probe that did not succeed, and ok is true exactly
\* when there is none.
C19_JoinNotRace ==
    apc = "returned"
    => /\ Len(tasks) = Len(sources_to_check(source_registry))
       /\ \A i \in 1..Len(tasks) :
             tasks[i].st = "done" /\ tasks[i].outcome \in ProbeOutcomes
       /\ Len(acc_ret.errors)
             = Cardinality({i \in 1..Len(tasks) : ~Succeeded(tasks[i].outcome)})
       /\ acc_ret.ok <=> (acc_ret.errors = <<>>)

\* The first probe timed out, a later one was still made and succeeded.
C19_Witness ==
    /\ apc = "returned"
    /\ Len(tasks) >= 2
    /\ tasks[1].outcome.kind = "timeout"
    /\ Succeeded(tasks[Len(tasks)].outcome)
    /\ Len(acc_ret.errors) = 1

\* The status the claim gives for an outcome.
StatusFor(outcome) ==
    CASE outcome.kind = "response" /\ outcome.status >= 400 -> "UNREACHABLE"
      [] outcome.kind = "response" /\ outcome.status < 400 -> "VERIFIED"
      [] outcome.kind = "timeout" -> "TIMEOUT"
      [] outcome.kind = "error" -> "UNREACHABLE"

Candidates(reg) ==
    IF DOMAIN reg.citation_map # {}
    THEN {reg.citation_map[k] : k \in DOMAIN reg.citation_map}
            \cap DOMAIN reg.sources
    ELSE DOMAIN reg.sources

\* C21: validate_url_accessibility probes the sources of its candidate set
\* and no other: every task is for a candidate, a source outside the set keeps
\* the status it had, and when the call has returned every candidate has been
\* probed; with an empty candidate set it returns (True, []) and starts no
\* probe.
C21_OnlyCandidatesProbed ==
    /\ [](/\ \A i \in 1..Len(tasks) :
                tasks[i].source \in Candidates(source_registry)
          /\ (apc = "returned" /\ Candidates(source_registry) # {})
                => \A sid \in Candidates(source_registry) :
                      \E i \in 1..Len(tasks) :
                         tasks[i].source = sid /\ tasks[i].st = "done"
          /\ (apc # "idle" /\ Candidates(source_registry) = {})
                => /\ apc = "returned"
                   /\ tasks = <<>>
                   /\ acc_ret = [ok |-> TRUE, errors |-> <<>>])
    /\ [][\A sid \in DOMAIN source_registry.sources :
             sid \notin Candidates(source_registry)
             => source_registry'.sources[sid].status
                   = source_registry.sources[sid].status]_vars

\* The call has returned for a registry whose citation_map refers to s2 only:
\* s2 was probed, and s1 still has the TIMEOUT of an earlier check.
C21_Witness ==
    /\ apc = "returned"
    /\ Candidates(source_registry) = {"s2"}
    /\ DOMAIN source_registry.sources = {"s1", "s2"}
    /\ source_registry.sources["s1"].status = "TIMEOUT"
    /\ source_registry.sources["s2"].status = "VERIFIED"

\* C22: within one call of validate_url_accessibility every candidate source
\* is probed exactly once, and a source whose probe timed out has the status
\* TIMEOUT when the call returns.
C22_TimeoutTerminal ==
    apc = "returned"
    => /\ \A sid \in Candidates(source_registry) :
             Cardinality({i \in 1..Len(tasks) : tasks[i].source = sid}) = 1
       /\ \A i \in 1..Len(tasks) :
             tasks[i].outcome.kind = "timeout"
             => source_registry.sources[tasks[i].source].status = "TIMEOUT"

\* C23: when the existence or the format stage raised, the result has a
\* warning for it and no error in its list, and is_valid is true exactly when
\* the checker of the other critical stage, if that one returned, gave an
\* empty list; when both raised, is_valid is true.
C23_ExceptionNeverFlips ==
    Done
    => /\ Ended(1) = "raised"
             => /\ result.source_existence_errors = <<>>
                /\ WarningCount(FailureMessage("existence")) = 1
       /\ Ended(2) = "raised"
             => /\ result.format_errors = <<>>
                /\ WarningCount(FailureMessage("format")) = 1
       /\ (Ended(1) = "raised" /\ Ended(2) = "returned")
             => (result.is_valid
                    <=> validate_citation_format(content).errors = <<>>)
       /\ (Ended(1) = "returned" /\ Ended(2) = "raised")
             => (result.is_valid
                    <=> validate_source_existence(
                            content, LocalRegistry(source_registry)).errors = <<>>)
       /\ (Ended(1) = "raised" /\ Ended(2) = "raised") => result.is_valid

\* The existence stage raised, the format stage passed the text: valid, with
\* the warning.
C23_Witness ==
    /\ Done
    /\ Ended(1) = "raised"
    /\ Ended(2) = "returned"
    /\ content = DocLinked
    /\ result.is_valid
    /\ WarningCount(FailureMessage("existence")) = 1

\* The cited URL u and some registered URL are in a prefix relation.
SharesPrefix(u, reg) ==
    \E r \in DOMAIN reg.url_to_source_id : startswith(u, r) \/ startswith(r, u)

\* C24: among the link occurrences whose URL is not a key of
\* url_to_source_id, those in a prefix relation with a registered URL get no
\* error and the others one each.  So of DocPrefix, against a registry with
\* https://acme.com/report, the link to https://acme.com and the link to
\* https://acme.com/report/2024 are accepted and only [C] is rejected; and of
\* DocPunct both links are accepted, https://acme.com/reports among them.
C24_PrefixLeniency ==
    (ExistenceReturned /\ ~NoSources(source_registry))
    => LET reg == source_registry
           NotKey(link) == CitedUrl(link) \notin DOMAIN reg.url_to_source_id
           Rejected(link) == NotKey(link) /\ ~SharesPrefix(CitedUrl(link), reg)
           rejected == SelectSeq(markdown_links(content), Rejected)
           errors == SelectSeq(returned.errors, IsHyperlinkError)
       IN  /\ [j \in 1..Len(errors) |-> errors[j].detail[1]]
                 = [j \in 1..Len(rejected) |-> rejected[j].title]
           /\ content = DocPrefix
                 => (Len(errors) = 1 /\ errors[1].detail[1] = <<"C">>)
           /\ content = DocPunct => errors = <<>>

\* DocPrefix checked: one error, for [C], and ok = false.
C24_Witness ==
    /\ ExistenceReturned
    /\ ~NoSources(source_registry)
    /\ content = DocPrefix
    /\ Len(returned.errors) = 1
    /\ ~returned.ok

\* The text before the Sources marker.
BodyOf(c) == SplitAtMarker(c, 1).body_text
\* The text after the Sources marker.
SectionOf(c) == SplitAtMarker(c, 1).sources_section

IsGapError(e) == e.msg = "Gap in citation sequence"

\* The numbers below the largest cited number that the body does not cite.
MissingBelowMax(nums) ==
    {n \in 1..9 : n \notin nums /\ \E m \in nums : n < m}

\* C25: when the body cites numbers and a Sources section exists, the format
\* errors contain one gap error, listing the numbers missing from 1..max in
\* ascending order, when 1 to ReportCap numbers are missing, and no gap error
\* when none or more are.  So DocGap (body and Sources {1,2,4}) gives the gap
\* error for 3.
C25_GapDetection ==
    (/\ FormatReturned
     /\ numeric_citations(BodyOf(content)) # {}
     /\ SectionOf(content) # <<>>)
    => LET missing == MissingBelowMax(numeric_citations(BodyOf(content)))
           gaps == SelectSeq(returned.errors, IsGapError)
       IN  /\ Cardinality(missing) \in 1..ReportCap
                 => (gaps = <<Err("Gap in citation sequence", sorted(missing))>>
                     /\ ~returned.ok)
           /\ Cardinality(missing) \notin 1..ReportCap => gaps = <<>>
           /\ content = DocGap
                 => returned.errors = <<Err("Gap in citation sequence", <<3>>)>>

\* DocSixGap checked: six numbers are missing, no gap error, ok = true.
C25_Witness ==
    /\ FormatReturned
    /\ content = DocSixGap
    /\ Cardinality(MissingBelowMax(numeric_citations(BodyOf(content)))) = 6
    /\ returned.ok

IsMissingUrlError(e) == e.msg = "URLs cited in body but not in Sources section"

\* The URLs of the links of a text, without their trailing slashes.
LinkedUrls(text) ==
    LET links == markdown_links(text)
    IN  {rstrip(links[i].url, {"/"}) : i \in 1..Len(links)}

\* C26: when the body has links and a Sources section exists, the format
\* errors contain one error with the number of distinct body URLs that the
\* Sources section does not link, when that number is 1 to ReportCap, and none
\* when it is 0 or more; the errors of the numeric checks follow it, the same
\* as they are for the text without regard to its links.
C26_HyperlinkFormatCompare ==
    (/\ FormatReturned
     /\ markdown_links(BodyOf(content)) # <<>>
     /\ SectionOf(content) # <<>>)
    => LET n == Cardinality(LinkedUrls(BodyOf(content))
                               \ LinkedUrls(SectionOf(content)))
           nums == numeric_citations(BodyOf(content))
           link_errors == SelectSeq(returned.errors, IsMissingUrlError)
           numeric_errors ==
               IF nums = {} THEN <<>>
               ELSE NumericFormatErrors(nums, SectionOf(content))
       IN  /\ n \in 1..ReportCap
                 => link_errors
                       = <<Err("URLs cited in body but not in Sources section",
                               <<n>>)>>
           /\ n \notin 1..ReportCap => link_errors = <<>>
           /\ returned.errors = link_errors \o numeric_errors
           /\ returned.ok <=> (returned.errors = <<>>)

\* DocMixed checked: one URL of two is missing, and the gap and the undefined
\* number are reported after it.
C26_Witness ==
    /\ FormatReturned
    /\ content = DocMixed
    /\ Len(returned.errors) = 3
    /\ returned.errors[1] = Err("URLs cited in body but not in Sources section",
                                <<1>>)

====
